---- MODULE Spec2Model ----
(***************************************************************************)
(* PostTrainAgent orchestration core: the control loop (main.py            *)
(* agent_loop), the sub-agent spawner (tools/impl.py run_task and          *)
(* execute_tool), the job tracker (tools/job_manager.py) and the todo      *)
(* manager (tools/todo_manager.py).                                        *)
(*                                                                         *)
(* Text is modelled as a sequence of one-character strings, so that        *)
(* str.strip(), int(...) and str(...) are computed, not assumed.           *)
(***************************************************************************)
EXTENDS Integers, Sequences, FiniteSets, TLC

VARIABLES
    jobs,        \* JobManager.jobs: pid (int) -> [cmd, log, start_time, status]
    procs,       \* the OS process table: pid -> "absent" | "running" | "zombie"
    clock,       \* time.time(), in ticks
    summary,     \* what the last check_jobs call reported: pid -> status
    add_outcome, \* how the last add_job call ended: "none" | "stored" | "rejected" | "raised"
    items,       \* TodoManager.items
    todo_outcome,\* how the last TodoManager.update call ended: "none" | "rendered" | the ValueError
    todo_text,   \* the text the last TodoManager.update call returned (none: the empty text)
    pc,          \* where agent_loop is: "awaiting" | "requesting" | "executing" | "returned"
    messages,    \* agent_loop's persistent history
    request_messages, \* the messages of the completion request last sent by agent_loop
    response_message, \* the assistant message of the last reply agent_loop received
    tool_calls,  \* the tool calls of the current turn not yet processed
    turn,        \* completion requests agent_loop has issued
    api_error,   \* whether agent_loop returned through its "API Error" handler
    stack,       \* the run_task activations, innermost last
    below,       \* whether run_task activations older than those in stack exist
    last_exec,   \* the tool handler entered by the step just taken, and for which agent
    task_end,    \* how the run_task activation ended that ended in the step just taken
    arguments,   \* the argument text of the tool call at hand (tc.function.arguments)
    func_args,   \* what safe_parse_json made of it
    wait_outcome,\* how run_wait ended for it, and the seconds it slept
    granted,     \* the last get_tools_for_agent call: the allowed-tool specification
                 \* it found and the tools it returned
    bash_result  \* what the last run_bash call with background=True returned

jobVars == <<jobs, procs, clock, summary, add_outcome>>

todoVars == <<items, todo_outcome, todo_text>>

loopVars == <<pc, messages, request_messages, response_message, tool_calls, turn,
              api_error, stack, below, last_exec, task_end>>

argVars == <<arguments, func_args, wait_outcome, granted, bash_result>>

vars == <<jobVars, todoVars, loopVars, argVars>>

----------------------------------------------------------------------------
(* Bounds of the model.                                                    *)

\* time.time() is followed up to this tick
MaxClock == 1
\* completion requests agent_loop issues before the model stops following it
MaxTurns == 2
\* run_task activations nested inside one another that the model follows
MaxDepth == 2
\* longest list handed to TodoManager.update
MaxItems == 3

----------------------------------------------------------------------------
(* Text helpers.                                                           *)

Last(s) == s[Len(s)]

Front(s) == SubSeq(s, 1, Len(s) - 1)

\* The characters str.strip() removes and \s matches
Whitespace == {" ", "\n", "\t", "\r"}

RECURSIVE LStrip(_)
LStrip(s) == IF s # <<>> /\ Head(s) \in Whitespace THEN LStrip(Tail(s)) ELSE s

RECURSIVE RStrip(_)
RStrip(s) == IF s # <<>> /\ Last(s) \in Whitespace THEN RStrip(Front(s)) ELSE s

\* str.strip()
Strip(s) == RStrip(LStrip(s))

Digits == <<"0", "1", "2", "3", "4", "5", "6", "7", "8", "9">>

IsDigit(c) == \E d \in 1..10 : Digits[d] = c

DigitValue(c) == (CHOOSE d \in 1..10 : Digits[d] = c) - 1

RECURSIVE DecimalValue(_)
DecimalValue(s) ==
    IF s = <<>> THEN 0 ELSE 10 * DecimalValue(Front(s)) + DigitValue(Last(s))

\* str(n) for n >= 0
RECURSIVE IntToText(_)
IntToText(n) ==
    IF n < 10 THEN <<Digits[n + 1]>>
    ELSE IntToText(n \div 10) \o <<Digits[(n % 10) + 1]>>

\* list[:n]
Prefix(list, n) == SubSeq(list, 1, IF Len(list) < n THEN Len(list) ELSE n)

----------------------------------------------------------------------------
(* tools/job_manager.py                                                    *)

\* A pid as add_job receives it (pid: int | str).
IntPid(n) == [t |-> "int", v |-> n, s |-> <<>>]

StrPid(s) == [t |-> "str", v |-> 0, s |-> s]

\* int(pid): the value, or ValueError.  A string is stripped, may carry one
\* sign, and must then be a non-empty run of decimal digits.
PyInt(x) ==
    IF x.t = "int" THEN [ok |-> TRUE, v |-> x.v]
    ELSE LET body   == Strip(x.s)
             signed == body # <<>> /\ Head(body) \in {"-", "+"}
             digits == IF signed THEN Tail(body) ELSE body
         IN  IF digits # <<>> /\ \A i \in 1..Len(digits) : IsDigit(digits[i])
             THEN [ok |-> TRUE,
                   v  |-> IF signed /\ Head(body) = "-"
                          THEN 0 - DecimalValue(digits) ELSE DecimalValue(digits)]
             ELSE [ok |-> FALSE, v |-> 0]

\* The pids the callers of add_job hand over in this model.
PidInputs ==
    { IntPid(7), IntPid(12),
      StrPid(<<"7">>), StrPid(<<"1", "2">>), StrPid(<<" ", "7", " ">>),
      StrPid(<<>>), StrPid(<<"x">>), StrPid(<<"7", "x">>), StrPid(<<"-">>),
      StrPid(<<"1", " ", "2">>), StrPid(<<"+", "7">>) }

\* The pids the OS hands out in this model.
Pids == {7, 12}

Cmds == {"train", "eval"}

LogOf(cmd) == IF cmd = "train" THEN "nohup_1.log" ELSE "nohup_2.log"

\* self.jobs[pid] = {...}
PutJob(table, pid, cmd, log, now) ==
    [p \in DOMAIN table \cup {pid} |->
        IF p = pid
        THEN [cmd |-> cmd, log |-> log, start_time |-> now, status |-> "running"]
        ELSE table[p]]

\* JobManager.add_job as a function of the table: the new table and how the
\* call ended.
add_job_uncaught(table, pid, cmd, log, now) ==
    LET n == PyInt(pid)
    IN  IF n.ok THEN [jobs |-> PutJob(table, n.v, cmd, log, now), outcome |-> "stored"]
        ELSE [jobs |-> table, outcome |-> "raised"]

add_job(table, pid, cmd, log, now) ==
    LET n == PyInt(pid)
    IN  IF n.ok THEN [jobs |-> PutJob(table, n.v, cmd, log, now), outcome |-> "stored"]
        ELSE [jobs |-> table, outcome |-> "rejected"]

AddJob(pid, cmd) ==
    LET r == add_job(jobs, pid, cmd, LogOf(cmd), clock)
    IN  /\ jobs' = r.jobs
        /\ add_outcome' = r.outcome
        /\ UNCHANGED <<procs, clock, summary, todoVars, argVars, loopVars>>

\* psutil.pid_exists / psutil.Process(pid).status() for one pid
Liveness(table, pid) ==
    IF pid \in DOMAIN table /\ table[pid] # "absent"
    THEN IF table[pid] = "zombie" THEN "zombie" ELSE "running"
    ELSE "done"

\* The status check_jobs prints for one job
ReportedStatus(table, os, pid) == Liveness(os, pid)

\* JobManager.check_jobs: the statuses it reports, and the table after the
\* "done" latch of its last lines.
check_jobs(table, os) ==
    [ report |-> [p \in DOMAIN table |-> ReportedStatus(table, os, p)],
      jobs   |-> [p \in DOMAIN table |->
                    IF Liveness(os, p) = "done" /\ table[p].status # "done"
                    THEN [table[p] EXCEPT !.status = "done"]
                    ELSE table[p]] ]

CheckJobs ==
    LET r == check_jobs(jobs, procs)
    IN  /\ summary' = r.report
        /\ jobs' = r.jobs
        /\ UNCHANGED <<procs, clock, add_outcome, todoVars, argVars, loopVars>>

NoBash == [text |-> "none", pid |-> <<>>, cmd |-> ""]

\* What /bin/bash -c "nohup cmd > log 2>&1 & echo $!" may write to its
\* standard output when the shell gives the job the pid p: the pid and a line
\* break, or, for a command list such as "echo hi; sleep 100", the output of
\* its first command before the pid
Captured(p) ==
    { IntToText(p) \o <<"\n">>,
      <<"h", "i", "\n">> \o IntToText(p) \o <<"\n">> }

\* run_bash(cmd, background=True) once the shell has returned 0: pid is the
\* stripped standard output, add_job is called with it, and the text that is
\* returned says the job has been registered
run_bash(table, cmd, stdout, now) ==
    LET pid == Strip(stdout)
        r   == add_job(table, StrPid(pid), cmd, LogOf(cmd), now)
    IN  [ jobs |-> r.jobs, outcome |-> r.outcome,
          result |-> [text |-> "Background task started", pid |-> pid, cmd |-> cmd] ]

RunBashBackground(cmd, p, stdout) ==
    /\ procs[p] = "absent"
    /\ procs' = [procs EXCEPT ![p] = "running"]
    /\ LET r == run_bash(jobs, cmd, stdout, clock)
       IN  /\ jobs' = r.jobs
           /\ add_outcome' = r.outcome
           /\ bash_result' = r.result
    /\ UNCHANGED <<clock, summary, todoVars, loopVars, arguments, func_args, wait_outcome,
                   granted>>

\* run_bash(cmd, background=True) when the shell returns non-zero: nothing is
\* launched or registered
RunBashFails(cmd) ==
    /\ bash_result' = [text |-> "Error starting background job", pid |-> <<>>, cmd |-> cmd]
    /\ UNCHANGED <<jobVars, todoVars, loopVars, arguments, func_args, wait_outcome, granted>>

\* The operating system: a process with pid p starts (a launched job or an
\* unrelated process that is given a free pid), exits into a zombie, is reaped.
ProcStart(p) ==
    /\ procs[p] = "absent"
    /\ procs' = [procs EXCEPT ![p] = "running"]
    /\ UNCHANGED <<jobs, clock, summary, add_outcome, todoVars, argVars, loopVars>>

ProcExit(p) ==
    /\ procs[p] = "running"
    /\ procs' = [procs EXCEPT ![p] = "zombie"]
    /\ UNCHANGED <<jobs, clock, summary, add_outcome, todoVars, argVars, loopVars>>

ProcReap(p) ==
    /\ procs[p] # "absent"
    /\ procs' = [procs EXCEPT ![p] = "absent"]
    /\ UNCHANGED <<jobs, clock, summary, add_outcome, todoVars, argVars, loopVars>>

Tick ==
    /\ clock < MaxClock
    /\ clock' = clock + 1
    /\ UNCHANGED <<jobs, procs, summary, add_outcome, todoVars, argVars, loopVars>>

----------------------------------------------------------------------------
(* tools/todo_manager.py                                                   *)

\* validated[:20]
TodoCap == 20

TodoStatuses == {"pending", "in_progress", "completed"}

\* str.lower() on the status texts of this model
Lower(s) ==
    CASE s = "IN_PROGRESS" -> "in_progress"
      [] s = "Completed"   -> "completed"
      [] OTHER             -> s

TodoItem(content, status, active) ==
    [content |-> content, status |-> status, activeForm |-> active]

\* The items a caller may put in a list handed to update.
ItemInputs ==
    { TodoItem(<<"a">>, "pending", <<"A">>),
      TodoItem(<<"b">>, "in_progress", <<"B">>),
      TodoItem(<<" ", "c">>, "IN_PROGRESS", <<"C", " ">>),
      TodoItem(<<"d">>, "Completed", <<"D">>),
      TodoItem(<<" ">>, "pending", <<"E">>),
      TodoItem(<<"f">>, "blocked", <<"F">>),
      TodoItem(<<"g">>, "completed", <<>>) }

\* A list of n items that update accepts, each item carrying its position and
\* the length of its list; the item after the cap is the one in progress.
Numbered(n) ==
    [i \in 1..n |->
        TodoItem(<<" ">> \o IntToText(i),
                 IF i = TodoCap + 1 THEN "in_progress" ELSE "pending",
                 IntToText(n))]

\* Lists around the cap of validated[:20]
LongLists == { Numbered(TodoCap), Numbered(TodoCap + 2) }

ListInputs == UNION { [1..n -> ItemInputs] : n \in 0..MaxItems } \cup LongLists

\* One pass of the for loop of update: the item as it is appended to
\* validated, or the ValueError of that item.
ValidateItem(item) ==
    LET content == Strip(item.content)
        status  == Lower(item.status)
        active  == Strip(item.activeForm)
    IN  IF content = <<>> \/ active = <<>>
        THEN [error |-> "content and activeForm required", item |-> item]
        ELSE IF status \notin TodoStatuses
        THEN [error |-> "invalid status", item |-> item]
        ELSE [error |-> "", item |-> TodoItem(content, status, active)]

InProgressCount(list) == Cardinality({i \in 1..Len(list) : list[i].status = "in_progress"})

\* The mark render puts before an item
Mark(status) ==
    CASE status = "completed"   -> <<"[", "x", "]">>
      [] status = "in_progress" -> <<"[", ">", "]">>
      [] OTHER                  -> <<"[", " ", "]">>

\* "\n".join(lines)
RECURSIVE Join(_)
Join(lines) ==
    IF lines = <<>> THEN <<>>
    ELSE IF Len(lines) = 1 THEN lines[1]
    ELSE lines[1] \o <<"\n">> \o Join(Tail(lines))

NoTodos == <<"N", "o", " ", "t", "o", "d", "o", "s", ".">>

DoneSuffix == <<" ", "d", "o", "n", "e", ")">>

render_counts_unfinished(stored) ==
    LET lines == [i \in 1..Len(stored) |-> Mark(stored[i].status) \o <<" ">> \o stored[i].content]
        done  == Cardinality({i \in 1..Len(stored) : stored[i].status # "pending"})
    IN  IF stored = <<>> THEN NoTodos
        ELSE Join(lines) \o <<"\n", "(">> \o IntToText(done) \o <<"/">>
               \o IntToText(Len(stored)) \o DoneSuffix

\* TodoManager.render for a stored list
render(stored) ==
    LET lines == [i \in 1..Len(stored) |-> Mark(stored[i].status) \o <<" ">> \o stored[i].content]
        done  == Cardinality({i \in 1..Len(stored) : stored[i].status = "completed"})
    IN  IF stored = <<>> THEN NoTodos
        ELSE Join(lines) \o <<"\n", "(">> \o IntToText(done) \o <<"/">>
               \o IntToText(Len(stored)) \o DoneSuffix

\* The check that follows the for loop of update
TooManyInProgressOff(in_progress) == FALSE

TooManyInProgress(in_progress) == in_progress > 1

update_stores_before_check(stored, list) ==
    LET checked   == [i \in 1..Len(list) |-> ValidateItem(list[i])]
        validated == [i \in 1..Len(list) |-> checked[i].item]
        failed    == {i \in 1..Len(list) : checked[i].error # ""}
    IN  IF failed # {}
        THEN [items |-> stored,
              outcome |-> checked[CHOOSE i \in failed : \A j \in failed : i <= j].error]
        ELSE IF TooManyInProgress(InProgressCount(validated))
        THEN [items |-> Prefix(validated, TodoCap),
              outcome |-> "Only one task can be in_progress"]
        ELSE [items |-> Prefix(validated, TodoCap), outcome |-> "rendered"]

update_without_cap(stored, list) ==
    LET checked   == [i \in 1..Len(list) |-> ValidateItem(list[i])]
        validated == [i \in 1..Len(list) |-> checked[i].item]
        failed    == {i \in 1..Len(list) : checked[i].error # ""}
    IN  IF failed # {}
        THEN [items |-> stored,
              outcome |-> checked[CHOOSE i \in failed : \A j \in failed : i <= j].error]
        ELSE IF TooManyInProgress(InProgressCount(validated))
        THEN [items |-> stored, outcome |-> "Only one task can be in_progress"]
        ELSE [items |-> validated, outcome |-> "rendered"]

\* TodoManager.update as a function of the stored list: the stored list after
\* the call and how the call ended (the first item to fail raises).
update(stored, list) ==
    LET checked   == [i \in 1..Len(list) |-> ValidateItem(list[i])]
        validated == [i \in 1..Len(list) |-> checked[i].item]
        failed    == {i \in 1..Len(list) : checked[i].error # ""}
    IN  IF failed # {}
        THEN [items |-> stored,
              outcome |-> checked[CHOOSE i \in failed : \A j \in failed : i <= j].error]
        ELSE IF TooManyInProgress(InProgressCount(validated))
        THEN [items |-> stored, outcome |-> "Only one task can be in_progress"]
        ELSE [items |-> Prefix(validated, TodoCap), outcome |-> "rendered"]

\* TODO.update(list): what it does to the todo manager
RunUpdate(list) ==
    LET r == update(items, list)
    IN  /\ items' = r.items
        /\ todo_outcome' = r.outcome
        /\ todo_text' = IF r.outcome = "rendered" THEN render(r.items) ELSE <<>>

Update(list) ==
    /\ RunUpdate(list)
    /\ UNCHANGED <<jobVars, loopVars, argVars>>

----------------------------------------------------------------------------
(* main.py safe_parse_json, on text.  A decoded value is a record: a string *)
(* (s), an integer (n), one of null/true/false (s), an object (o: its       *)
(* key-value pairs, one per key) or an array (a).                           *)

Q == "\""

Apostrophe == "'"

Backslash == "\\"

\* The grave accent, three of which make a fence
Backtick == "grave"

Newline == "\n"

Fence == <<Backtick, Backtick, Backtick>>

StrVal(s) == [t |-> "str", s |-> s, n |-> 0, o |-> {}, a |-> <<>>]

IntVal(n) == [t |-> "int", s |-> <<>>, n |-> n, o |-> {}, a |-> <<>>]

LitVal(name) == [t |-> "lit", s |-> <<name>>, n |-> 0, o |-> {}, a |-> <<>>]

ObjVal(o) == [t |-> "obj", s |-> <<>>, n |-> 0, o |-> o, a |-> <<>>]

ArrVal(a) == [t |-> "arr", s |-> <<>>, n |-> 0, o |-> {}, a |-> a]

NoVal == [t |-> "none", s |-> <<>>, n |-> 0, o |-> {}, a |-> <<>>]

\* What ast.literal_eval makes of a dict display with a list or a dict for a
\* key, and of whatever holds one: no value, the TypeError of an unhashable key
Unhashable == [t |-> "unhashable", s |-> <<>>, n |-> 0, o |-> {}, a |-> <<>>]

\* The dict and the list built from what was decoded
DictOf(o) == IF \E p \in o : p[2].t = "unhashable" THEN Unhashable ELSE ObjVal(o)

ListOf(a) == IF \E i \in 1..Len(a) : a[i].t = "unhashable" THEN Unhashable ELSE ArrVal(a)

\* d[k] = v for a decoded key k (a string, or for literal_eval a list or a
\* dict display, which cannot be a key)
PutMember(o, k, v) ==
    IF k.t = "str" THEN {p \in o : p[1] # k.s} \cup {<<k.s, v>>}
    ELSE o \cup {<<<<"unhashable">>, Unhashable>>}

\* d[k] = v on a dict held as a set of pairs
Put(o, k, v) == {p \in o : p[1] # k} \cup {<<k, v>>}

Keys(o) == {p[1] : p \in o}

Get(o, k) == (CHOOSE p \in o : p[1] = k)[2]

\* What a decoder returns: whether it accepted, the position after what it
\* read, and the value.
Accept(pos, val) == [ok |-> TRUE, pos |-> pos, val |-> val]

Reject == [ok |-> FALSE, pos |-> 0, val |-> NoVal]

StartsWithAt(text, i, pat) ==
    /\ i >= 1
    /\ i + Len(pat) - 1 <= Len(text)
    /\ SubSeq(text, i, i + Len(pat) - 1) = pat

\* pat in text
Contains(text, pat) == \E i \in 1..Len(text) : StartsWithAt(text, i, pat)

Least(S) == CHOOSE x \in S : \A y \in S : x <= y

Greatest(S) == CHOOSE x \in S : \A y \in S : y <= x

\* The first position from i on that holds no whitespace (Len(text) + 1: none)
SkipWs(text, i) ==
    Least({j \in i..(Len(text) + 1) : j = Len(text) + 1 \/ text[j] \notin Whitespace})

\* str.replace(pat, by)
RECURSIVE Replace(_, _, _)
Replace(text, pat, by) ==
    LET found == {i \in 1..Len(text) : StartsWithAt(text, i, pat)}
    IN  IF found = {} THEN text
        ELSE SubSeq(text, 1, Least(found) - 1) \o by
               \o Replace(SubSeq(text, Least(found) + Len(pat), Len(text)), pat, by)

\* The decoders differ in three ways.  "strict" is json.loads, "lax" is
\* json.loads(strict=False), which lets control characters stand inside a
\* string, "python" is ast.literal_eval: strings in either quote, None, True
\* and False, a comma allowed before the closing bracket, and no line break
\* inside a string.
Quotes(mode) == IF mode = "python" THEN {Q, Apostrophe} ELSE {Q}

ControlChars == {Newline, "\t", "\r"}

ForbiddenInString(mode) ==
    CASE mode = "strict" -> ControlChars
      [] mode = "lax"    -> {}
      [] OTHER           -> {Newline, "\r"}

\* The text an escape sequence stands for (<<>>: the decoder rejects it)
Unescape(c, mode) ==
    CASE c = "n" -> <<Newline>>
      [] c = "t" -> <<"\t">>
      [] c = "r" -> <<"\r">>
      [] c \in {Q, Backslash} -> <<c>>
      [] c = "/" -> IF mode = "python" THEN <<Backslash, c>> ELSE <<c>>
      [] c = Apostrophe -> IF mode = "python" THEN <<c>> ELSE <<>>
      [] OTHER -> IF mode = "python" THEN <<Backslash, c>> ELSE <<>>

\* A string whose opening quote (close) has been read; i is the next position
RECURSIVE DecodeString(_, _, _, _, _)
DecodeString(text, i, close, acc, mode) ==
    IF i > Len(text) THEN Reject
    ELSE IF text[i] = close THEN Accept(i + 1, StrVal(acc))
    ELSE IF text[i] = Backslash
    THEN IF i + 1 > Len(text) \/ Unescape(text[i + 1], mode) = <<>> THEN Reject
         ELSE DecodeString(text, i + 2, close, acc \o Unescape(text[i + 1], mode), mode)
    ELSE IF text[i] \in ForbiddenInString(mode) THEN Reject
    ELSE DecodeString(text, i + 1, close, Append(acc, text[i]), mode)

\* -?(0|[1-9][0-9]*); python also reads a leading +
DecodeNumber(text, i, mode) ==
    LET signed == text[i] = "-" \/ (mode = "python" /\ text[i] = "+")
        first  == IF signed THEN i + 1 ELSE i
        stop   == Least({j \in first..(Len(text) + 1) :
                            j = Len(text) + 1 \/ ~IsDigit(text[j])})
        digits == SubSeq(text, first, stop - 1)
        value  == DecimalValue(digits)
    IN  IF digits = <<>> THEN Reject
        ELSE IF Head(digits) = "0" /\ Len(digits) > 1
        THEN IF mode = "python" THEN Reject ELSE Accept(first + 1, IntVal(0))
        ELSE Accept(stop, IntVal(IF text[i] = "-" THEN 0 - value ELSE value))

LiteralNames(mode) ==
    IF mode = "python"
    THEN { <<<<"N", "o", "n", "e">>, "null">>, <<<<"T", "r", "u", "e">>, "true">>,
           <<<<"F", "a", "l", "s", "e">>, "false">> }
    ELSE { <<<<"n", "u", "l", "l">>, "null">>, <<<<"t", "r", "u", "e">>, "true">>,
           <<<<"f", "a", "l", "s", "e">>, "false">> }

DecodeLiteral(text, i, mode) ==
    LET found == {l \in LiteralNames(mode) : StartsWithAt(text, i, l[1])}
    IN  IF found = {} THEN Reject
        ELSE LET l == CHOOSE l \in found : TRUE
             IN  Accept(i + Len(l[1]), LitVal(l[2]))

RECURSIVE DecodeValue(_, _, _)
RECURSIVE DecodeMembers(_, _, _, _)
RECURSIVE DecodeElements(_, _, _, _)
\* The value that starts at position i
DecodeValue(text, i, mode) ==
    IF i > Len(text) THEN Reject
    ELSE IF text[i] \in Quotes(mode) THEN DecodeString(text, i + 1, text[i], <<>>, mode)
    ELSE IF text[i] = "{"
    THEN LET j == SkipWs(text, i + 1)
         IN  IF j <= Len(text) /\ text[j] = "}" THEN Accept(j + 1, ObjVal({}))
             ELSE DecodeMembers(text, j, {}, mode)
    ELSE IF text[i] = "["
    THEN LET j == SkipWs(text, i + 1)
         IN  IF j <= Len(text) /\ text[j] = "]" THEN Accept(j + 1, ArrVal(<<>>))
             ELSE DecodeElements(text, j, <<>>, mode)
    ELSE IF IsDigit(text[i]) \/ text[i] \in {"-", "+"} THEN DecodeNumber(text, i, mode)
    ELSE DecodeLiteral(text, i, mode)

\* The members of an object from position i on, where a key is due.  A key is
\* a string; literal_eval also reads a list or a dict display in its place
\* (the other keys Python allows are in no payload of this model).
DecodeMembers(text, i, acc, mode) ==
    IF i > Len(text) THEN Reject
    ELSE IF text[i] \notin Quotes(mode) /\ ~(mode = "python" /\ text[i] \in {"[", "{"})
    THEN Reject
    ELSE LET k == IF text[i] \in Quotes(mode)
                  THEN DecodeString(text, i + 1, text[i], <<>>, mode)
                  ELSE DecodeValue(text, i, mode)
             c == SkipWs(text, k.pos)
             v == DecodeValue(text, SkipWs(text, c + 1), mode)
             e == SkipWs(text, v.pos)
             n == SkipWs(text, e + 1)
         IN  IF ~k.ok \/ c > Len(text) \/ text[c] # ":" THEN Reject
             ELSE IF ~v.ok \/ e > Len(text) THEN Reject
             ELSE IF text[e] = "}" THEN Accept(e + 1, DictOf(PutMember(acc, k.val, v.val)))
             ELSE IF text[e] # "," THEN Reject
             ELSE IF mode = "python" /\ n <= Len(text) /\ text[n] = "}"
             THEN Accept(n + 1, DictOf(PutMember(acc, k.val, v.val)))
             ELSE DecodeMembers(text, n, PutMember(acc, k.val, v.val), mode)

\* The elements of an array from position i on, where a value is due
DecodeElements(text, i, acc, mode) ==
    LET v == DecodeValue(text, i, mode)
        e == SkipWs(text, v.pos)
        n == SkipWs(text, e + 1)
    IN  IF ~v.ok \/ e > Len(text) THEN Reject
        ELSE IF text[e] = "]" THEN Accept(e + 1, ListOf(Append(acc, v.val)))
        ELSE IF text[e] # "," THEN Reject
        ELSE IF mode = "python" /\ n <= Len(text) /\ text[n] = "]"
        THEN Accept(n + 1, ListOf(Append(acc, v.val)))
        ELSE DecodeElements(text, n, Append(acc, v.val), mode)

\* A whole text: one value, with nothing but whitespace around it
Decode(text, mode) ==
    LET v == DecodeValue(text, SkipWs(text, 1), mode)
    IN  IF v.ok /\ SkipWs(text, v.pos) = Len(text) + 1 THEN v ELSE Reject

\* json.loads(text)
json_loads(text) == Decode(text, "strict")

\* ast.literal_eval(text): the value, or that it raised; val says whether
\* what it raised is the TypeError of an unhashable key rather than a
\* ValueError or a SyntaxError
literal_eval(text) ==
    LET r == Decode(text, "python")
    IN  IF r.ok /\ r.val.t = "unhashable" THEN [ok |-> FALSE, pos |-> 0, val |-> Unhashable]
        ELSE r

\* str.rstrip of backslashes
RECURSIVE RStripBackslash(_)
RStripBackslash(text) ==
    IF text # <<>> /\ Last(text) = Backslash THEN RStripBackslash(Front(text)) ELSE text

\* The pattern of step 1 is a fence, an optional json tag, whitespace, the
\* group - an opening brace up to a closing brace, as short as can be -
\* whitespace and a fence.  Where the group of a match at i starts, and the
\* closing braces at which it may end
GroupStart(text, i) ==
    SkipWs(text, IF StartsWithAt(text, i + 3, <<"j", "s", "o", "n">>) THEN i + 7 ELSE i + 3)

GroupEnds(text, i) ==
    LET b == GroupStart(text, i)
    IN  IF ~StartsWithAt(text, i, Fence) \/ b > Len(text) \/ text[b] # "{" THEN {}
        ELSE {e \in (b + 1)..Len(text) :
                 text[e] = "}" /\ StartsWithAt(text, SkipWs(text, e + 1), Fence)}

\* re.search(pattern, cleaned, re.DOTALL) and match.group(1): the leftmost
\* match, its group ending at the first brace a fence follows; the text
\* itself when nothing matches
FencedGroup(text) ==
    LET starts == {i \in 1..Len(text) : GroupEnds(text, i) # {}}
    IN  IF starts = {} THEN text
        ELSE SubSeq(text, GroupStart(text, Least(starts)),
                    Least(GroupEnds(text, Least(starts))))

\* Step 1 of safe_parse_json: strip, fenced block, trailing backslashes,
\* everything after the last closing brace
Preprocess(json_str) ==
    LET stripped == Strip(json_str)
        unfenced == IF Contains(stripped, Fence) THEN FencedGroup(stripped) ELSE stripped
        trimmed  == RStripBackslash(unfenced)
        braces   == {i \in 1..Len(trimmed) : trimmed[i] = "}"}
    IN  IF braces = {} THEN trimmed ELSE SubSeq(trimmed, 1, Greatest(braces))

\* cleaned.replace("null", "None").replace("true", "True").replace("false", "False")
PythonStyle(cleaned) ==
    Replace(Replace(Replace(cleaned, <<"n", "u", "l", "l">>, <<"N", "o", "n", "e">>),
                    <<"t", "r", "u", "e">>, <<"T", "r", "u", "e">>),
            <<"f", "a", "l", "s", "e">>, <<"F", "a", "l", "s", "e">>)

PathKey == <<"p", "a", "t", "h">>

ContentKey == <<"c", "o", "n", "t", "e", "n", "t">>

AppendKey == <<"a", "p", "p", "e", "n", "d">>

Quoted(s) == <<Q>> \o s \o <<Q>>

\* Where the opening quote of the value is when the quoted key, a colon and a
\* quote, with any whitespace between them, are at position i (0: they are not)
ValueQuote(text, i, key) ==
    LET c == SkipWs(text, i + Len(key) + 2)
        q == SkipWs(text, c + 1)
    IN  IF StartsWithAt(text, i, Quoted(key)) /\ c <= Len(text) /\ text[c] = ":"
           /\ q <= Len(text) /\ text[q] = Q
        THEN q ELSE 0

\* path_match: the leftmost place where the path key is followed by a quoted
\* value of at least one character; the group runs to the next quote
PathMatch(text) ==
    LET closing(q) == {j \in (q + 1)..Len(text) : text[j] = Q}
        matches(i) == LET q == ValueQuote(text, i, PathKey)
                      IN  q # 0 /\ closing(q) # {} /\ Least(closing(q)) > q + 1
        starts     == {i \in 1..Len(text) : matches(i)}
    IN  IF starts = {} THEN Reject
        ELSE LET q == ValueQuote(text, Least(starts), PathKey)
             IN  Accept(0, StrVal(SubSeq(text, q + 1, Least(closing(q)) - 1)))

\* content_match: the leftmost place where the content key is followed by a
\* quoted value; the group runs to the last quote that a closing brace follows
ContentMatch(text) ==
    LET closing(q) == {j \in (q + 1)..Len(text) :
                          /\ text[j] = Q
                          /\ SkipWs(text, j + 1) <= Len(text)
                          /\ text[SkipWs(text, j + 1)] = "}"}
        matches(i) == LET q == ValueQuote(text, i, ContentKey)
                      IN  q # 0 /\ closing(q) # {}
        starts     == {i \in 1..Len(text) : matches(i)}
    IN  IF starts = {} THEN Reject
        ELSE LET q == ValueQuote(text, Least(starts), ContentKey)
             IN  Accept(0, StrVal(SubSeq(text, q + 1, Greatest(closing(q)) - 1)))

\* raw_content decoded as unicode_escape, or raw_content when
\* the decoding raises (a backslash at the end of the text)
RECURSIVE UnicodeEscape(_, _)
UnicodeEscape(text, i) ==
    IF i > Len(text) THEN Accept(i, StrVal(<<>>))
    ELSE IF text[i] # Backslash
    THEN LET rest == UnicodeEscape(text, i + 1)
         IN  IF rest.ok THEN Accept(i, StrVal(<<text[i]>> \o rest.val.s)) ELSE Reject
    ELSE IF i = Len(text) THEN Reject
    ELSE LET rest == UnicodeEscape(text, i + 2)
         IN  IF rest.ok
             THEN Accept(i, StrVal(Unescape(text[i + 1], "python") \o rest.val.s))
             ELSE Reject

DecodedContent(raw_content) ==
    LET decoded == UnicodeEscape(raw_content, 1)
    IN  IF decoded.ok THEN decoded.val.s ELSE raw_content

RegexRescueKeepsTwoKeys(cleaned) ==
    LET path_match    == PathMatch(cleaned)
        content_match == ContentMatch(cleaned)
    IN  IF /\ Contains(cleaned, Quoted(PathKey))
           /\ Contains(cleaned, Quoted(ContentKey))
           /\ path_match.ok
           /\ content_match.ok
        THEN Accept(0, ObjVal({ <<PathKey, path_match.val>>,
                                <<ContentKey, StrVal(DecodedContent(content_match.val.s))>> }))
        ELSE Reject

\* Step 4 of safe_parse_json
RegexRescue(cleaned) ==
    LET path_match    == PathMatch(cleaned)
        content_match == ContentMatch(cleaned)
    IN  IF /\ Contains(cleaned, Quoted(PathKey))
           /\ Contains(cleaned, Quoted(ContentKey))
           /\ path_match.ok
           /\ content_match.ok
        THEN Accept(0, ObjVal({ <<PathKey, path_match.val>>,
                                <<ContentKey, StrVal(DecodedContent(content_match.val.s))>>,
                                <<AppendKey, LitVal("false")>> }))
        ELSE Reject

\* json_str[:200]
RawLimit == 200

Returned(stage, val) ==
    [ok |-> TRUE, stage |-> stage, val |-> val, exception |-> "", error |-> <<>>]

\* raise ValueError: the message carries json_str[:200]
Raised(json_str) ==
    [ok |-> FALSE, stage |-> 5, val |-> NoVal, exception |-> "ValueError",
     error |-> Prefix(json_str, RawLimit)]

\* The TypeError of literal_eval, which the except clause of step 3 does not
\* name: it leaves safe_parse_json, and its message holds nothing of json_str
Escaped == [ok |-> FALSE, stage |-> 3, val |-> NoVal, exception |-> "TypeError", error |-> <<>>]

\* Steps 2 to 5 of safe_parse_json: the first of json.loads, literal_eval and
\* the regex rescue to give a value, given what each made of the cleaned text
FirstParsed(json_str, loaded, literal, rescued) ==
    IF loaded.ok THEN Returned(2, loaded.val)
    ELSE IF literal.ok THEN Returned(3, literal.val)
    ELSE IF literal.val = Unhashable THEN Escaped
    ELSE IF rescued.ok THEN Returned(4, rescued.val)
    ELSE Raised(json_str)

ParseSteps(json_str, cleaned) ==
    FirstParsed(json_str, Decode(cleaned, "lax"), literal_eval(PythonStyle(cleaned)),
                RegexRescue(cleaned))

\* safe_parse_json for a text (tc.function.arguments is always one): the value
\* it returns and the step that produced it, or the ValueError of step 5
safe_parse_json(json_str) ==
    ParseSteps(json_str, Preprocess(json_str))

----------------------------------------------------------------------------
(* The argument texts of tool calls, and the steps agent_loop takes with   *)
(* one: safe_parse_json, then execute_tool, here for the wait tool.        *)

SecondsKey == <<"s", "e", "c", "o", "n", "d", "s">>

\* The text of an object with the one key seconds
SecondsArgument(value) == <<"{">> \o Quoted(SecondsKey) \o <<":", " ">> \o value \o <<"}">>

\* The durations asked of the wait tool in this model: integers around the
\* one-hour mark, a negative one, texts and null.
SecondsTexts ==
    { SecondsArgument(IntToText(n)) : n \in {0, 5, 3599, 3600, 3601, 7200} }
      \cup { SecondsArgument(<<"-", "1">>),
             SecondsArgument(Quoted(<<"1", "5">>)),
             SecondsArgument(Quoted(<<"a", "b", "c">>)),
             SecondsArgument(<<"n", "u", "l", "l">>) }

\* Argument texts as the backend may write them: well-formed objects, texts
\* only a later step of safe_parse_json accepts, and texts none accepts.
ObjectTexts ==
    {
      \* flat object
      <<"{", Q, "a", Q, ":", " ", "1", "}">>,
      \* empty object
      <<"{", "}">>,
      \* the words null, true and false inside strings
      <<"{", Q, "a", Q, ":", " ", Q, "n", "u", "l", "l", Q, ",", " ", Q, "b", Q, ":",
        " ", Q, "t", "r", "u", "e", " ", "f", "a", "l", "s", "e", Q, "}">>,
      \* the literals null, true and false
      <<"{", Q, "a", Q, ":", " ", "n", "u", "l", "l", ",", " ", Q, "b", Q, ":", " ",
        "t", "r", "u", "e", ",", " ", Q, "c", Q, ":", " ", "f", "a", "l", "s", "e", "}">>,
      \* nested object
      <<"{", Q, "a", Q, ":", " ", "{", Q, "b", Q, ":", " ", "-", "7", "}", "}">>,
      \* array of objects
      <<"{", Q, "i", "t", "e", "m", "s", Q, ":", " ", "[", "{", Q, "c", "o", "n", "t",
        "e", "n", "t", Q, ":", " ", Q, "a", Q, "}", ",", " ", "2", "]", "}">>,
      \* a fenced block inside a string value
      <<"{", Q, "c", Q, ":", " ", Q, Backtick, Backtick, Backtick, "{", "}", Backtick,
        Backtick, Backtick, Q, "}">>,
      \* a closing brace and a fence inside a string value
      <<"{", Q, "a", Q, ":", " ", Q, "}", Backtick, Backtick, Backtick, Q, "}">>,
      \* path and content, well formed
      <<"{", Q, "p", "a", "t", "h", Q, ":", " ", Q, "f", Q, ",", " ", Q, "c", "o", "n",
        "t", "e", "n", "t", Q, ":", " ", Q, "x", Q, "}">>,
      \* a string value ending in an escaped backslash
      <<"{", Q, "a", Q, ":", " ", Q, "x", Backslash, Backslash, Q, "}">>,
      \* an escaped quote and an escaped line break in a string
      <<"{", Q, "a", Q, ":", " ", Q, "x", Backslash, Q, "y", Backslash, "n", "z", Q, "}">>,
      \* single-quoted object
      <<"{", Apostrophe, "a", Apostrophe, ":", " ", "1", "}">>,
      \* single-quoted object holding the word null in a string
      <<"{", Apostrophe, "a", Apostrophe, ":", " ", Apostrophe, "n", "u", "l", "l",
        Apostrophe, ",", " ", Apostrophe, "b", Apostrophe, ":", " ", "n", "u", "l",
        "l", "}">>,
      \* comma before the closing brace
      <<"{", Q, "a", Q, ":", " ", "1", ",", "}">>,
      \* raw line break inside a string value
      <<"{", Q, "a", Q, ":", " ", Q, "x", Newline, "y", Q, "}">>,
      \* path and content with an unescaped quote in the content
      <<"{", Q, "p", "a", "t", "h", Q, ":", " ", Q, "f", Q, ",", " ", Q, "c", "o", "n",
        "t", "e", "n", "t", Q, ":", " ", Q, "x", Q, "y", Backslash, "n", Q, "}">>,
      \* path and content, content not closed
      <<"{", Q, "p", "a", "t", "h", Q, ":", " ", Q, "f", Q, ",", " ", Q, "c", "o", "n",
        "t", "e", "n", "t", Q, ":", " ", Q, "x">>,
      \* truncated object
      <<"{", Q, "a", Q, ":", " ", "1">>,
      \* empty text
      <<>>,
      \* one closing brace too many
      <<"{", Q, "a", Q, ":", " ", "1", "}", "}">>,
      \* a number, no object
      <<"1", "2">>,
      \* prose
      <<"r", "e", "a", "d", " ", "i", "t">>,
      \* a list where a key is due
      <<"{", "[", "1", "]", ":", " ", "2", "}">>,
      \* a dict display with a list for a key, as a value
      <<"{", Q, "a", Q, ":", " ", "{", "[", "1", "]", ":", " ", "2", "}", "}">> }

\* Texts no step accepts, around the 200 characters the ValueError quotes
LongTexts == { <<"{">> \o [i \in 1..n |-> "x"] : n \in {RawLimit - 2, RawLimit - 1, RawLimit + 50} }

ArgumentTexts == ObjectTexts \cup SecondsTexts

\* What the backend may put around an argument text
Wrappings == {"bare", "fenced json", "fenced", "backslash", "padded", "prose"}

Wrapped(w, text) ==
    CASE w = "fenced json" -> Fence \o <<"j", "s", "o", "n", Newline>> \o text \o <<Newline>> \o Fence
      [] w = "fenced"      -> Fence \o text \o Fence
      [] w = "backslash"   -> text \o <<Backslash>>
      [] w = "padded"      -> <<" ">> \o text \o <<Newline>>
      [] w = "prose"       -> <<"o", "k", ":", " ">> \o text \o <<" ", "d", "o", "n", "e">>
      [] OTHER             -> text

Payloads == {Wrapped(w, text) : w \in Wrappings, text \in ArgumentTexts} \cup LongTexts

NotParsed == [ok |-> FALSE, stage |-> 0, val |-> NoVal, exception |-> "", error |-> <<>>]

\* func_args = safe_parse_json(tc.function.arguments)
Parse ==
    /\ func_args = NotParsed
    /\ func_args' = safe_parse_json(arguments)
    /\ UNCHANGED <<jobVars, todoVars, loopVars, arguments, wait_outcome, granted, bash_result>>

\* seconds > 3600: seconds = 3600
WaitCap == 3600

\* except Exception: seconds = 10
WaitFallback == 10

\* int(seconds) for a decoded value: the integer, or the exception
IntOf(val) ==
    CASE val.t = "int" -> [ok |-> TRUE, v |-> val.n]
      [] val.t = "str" -> PyInt(StrPid(val.s))
      [] val.t = "lit" /\ val.s # <<"null">> ->
            [ok |-> TRUE, v |-> IF val.s = <<"true">> THEN 1 ELSE 0]
      [] OTHER -> [ok |-> FALSE, v |-> 0]

NoWait == [outcome |-> "none", slept |-> 0]

\* run_wait: time.sleep raises ValueError for a negative length, and nothing
\* in run_wait catches it
run_wait(seconds) ==
    LET n       == IF IntOf(seconds).ok THEN IntOf(seconds).v ELSE WaitFallback
        clamped == IF n > WaitCap THEN WaitCap ELSE n
    IN  IF clamped < 0 THEN [outcome |-> "raised", slept |-> 0]
        ELSE [outcome |-> "returned", slept |-> clamped]

\* execute_tool for a call of the wait tool: run_wait(args["seconds"])
Wait ==
    /\ func_args.ok /\ func_args.val.t = "obj"
    /\ SecondsKey \in Keys(func_args.val.o)
    /\ wait_outcome = NoWait
    /\ wait_outcome' = run_wait(Get(func_args.val.o, SecondsKey))
    /\ UNCHANGED <<jobVars, todoVars, loopVars, arguments, func_args, granted, bash_result>>

----------------------------------------------------------------------------
(* tasks/agent_types.py and tools/base.py                                  *)

BASE_TOOLS == {"bash", "read_file", "write_file", "edit_file", "TodoWrite", "wait"}

ALL_TOOLS == BASE_TOOLS \cup {"Task", "Skill"}

\* The registry of agent types: each has an allowed-tool specification, the
\* wildcard or an explicit set of tool names.
AGENT_TYPES ==
    [ explore |-> [wildcard |-> FALSE, tools |-> {"read_file"}],
      code    |-> [wildcard |-> TRUE,  tools |-> {}] ]

KnownAgentType(agent_type) == agent_type \in DOMAIN AGENT_TYPES

\* The allowed-tool specification an agent type without an entry, or without
\* a "tools" key, falls back to
Wildcard == [wildcard |-> TRUE, tools |-> {}]

ToolsAllowedOfAll(allowed) ==
    IF allowed.wildcard THEN ALL_TOOLS ELSE {t \in ALL_TOOLS : t \in allowed.tools}

\* The body of get_tools_for_agent once allowed is looked up
ToolsAllowed(allowed) ==
    IF allowed.wildcard THEN ALL_TOOLS ELSE {t \in BASE_TOOLS : t \in allowed.tools}

get_tools_for_agent(agent_type) ==
    ToolsAllowed(IF KnownAgentType(agent_type) THEN AGENT_TYPES[agent_type] ELSE Wildcard)

\* The allowed-tool specifications a registry entry may hold: the wildcard,
\* or a set of tool names, the names of Task and Skill among them
AllowedSpecs ==
    {Wildcard} \cup { [wildcard |-> FALSE, tools |-> names] : names \in SUBSET ALL_TOOLS }

NoGrant == [allowed |-> Wildcard, tools |-> {}]

\* get_tools_for_agent for an agent type whose entry holds this specification
GetTools(allowed) ==
    /\ granted' = [allowed |-> allowed, tools |-> ToolsAllowed(allowed)]
    /\ UNCHANGED <<jobVars, todoVars, loopVars, arguments, func_args, wait_outcome, bash_result>>

----------------------------------------------------------------------------
(* Messages and tool calls.                                                *)

NoId == <<>>

Message(role, content, uid, calls, id) ==
    [role |-> role, content |-> content, uid |-> uid, tool_calls |-> calls,
     tool_call_id |-> id, job_status |-> <<>>]

SystemPrompt == Message("system", "SYSTEM", NoId, <<>>, NoId)

UserPrompt == Message("user", "PROMPT", NoId, <<>>, NoId)

\* {"role": "system", "content": get_context_injection()}
StatusPayload(report) ==
    [Message("system", "[SYSTEM STATUS UPDATE]", NoId, <<>>, NoId)
        EXCEPT !.job_status = report]

IsStatus(m) == m.role = "system" /\ m.content = "[SYSTEM STATUS UPDATE]"

\* A tool call as the backend writes it: the tool's name, the form of the
\* argument text ("json": the text of a JSON object, "fenced": such a text
\* inside a fenced code block, "garbage": text no decoder accepts) and what the
\* text says once decoded ("nokey": an object without the tool's required key).
Call(name, form, arg) == [name |-> name, form |-> form, arg |-> arg]

WithIds(calls, level, round) ==
    [i \in 1..Len(calls) |->
        [id |-> <<level, round, i>>, name |-> calls[i].name,
         form |-> calls[i].form, arg |-> calls[i].arg]]

Ids(calls) == [i \in 1..Len(calls) |-> calls[i].id]

\* The assistant message of the reply to request number round at this level
Assistant(level, round, calls) ==
    Message("assistant", "reply", <<level, round>>, Ids(calls), NoId)

ToolMessage(id, content) == Message("tool", content, NoId, <<>>, id)

\* The replies with tool calls the backend gives agent_loop in this model.
TopReplies ==
    { <<Call("bash", "json", "fg")>>,
      <<Call("bash", "garbage", "fg"), Call("read_file", "json", "nokey"),
        Call("bash", "json", "bg")>>,
      <<Call("grep", "json", "x"), Call("TodoWrite", "json", "two in progress")>>,
      <<Call("Task", "json", "code")>>,
      <<Call("read_file", "fenced", "path"), Call("Task", "json", "explore")>>,
      <<Call("Task", "json", "reviewer"), Call("read_file", "json", "path")>> }

\* The replies with tool calls the backend gives a sub-agent in this model.
SubReplies ==
    { <<Call("read_file", "json", "path")>>,
      <<Call("bash", "json", "fg")>>,
      <<Call("bash", "json", "bg")>>,
      <<Call("read_file", "fenced", "path")>>,
      <<Call("read_file", "json", "nokey")>>,
      <<Call("Task", "json", "code")>> }

\* The argument text of a tool call of this model
ArgumentsOf(tc) ==
    LET object == IF tc.arg = "nokey" THEN <<"{", "}">>
                  ELSE <<"{", Q, "a", Q, ":", " ", "1", "}">>
    IN  CASE tc.form = "json"   -> object
          [] tc.form = "fenced" -> Wrapped("fenced json", object)
          [] OTHER              -> <<"{", Q, "a", Q, ":", " ", "1">>

\* The argument texts of this model, each decoded once by safe_parse_json and
\* by json.loads
ArgumentForms == {"json", "fenced", "garbage"}

ParsedArguments ==
    [form \in ArgumentForms, empty \in BOOLEAN |->
        LET text == ArgumentsOf([form |-> form, arg |-> IF empty THEN "nokey" ELSE "key"])
        IN  [safe |-> safe_parse_json(text).ok, strict |-> json_loads(text).ok]]

\* main.py safe_parse_json: whether it returns a mapping for the text
safe_parse_json_ok(tc) == ParsedArguments[tc.form, tc.arg = "nokey"].safe

\* json.loads: whether it returns a mapping for the text
json_loads_ok(tc) == ParsedArguments[tc.form, tc.arg = "nokey"].strict

----------------------------------------------------------------------------
(* tools/impl.py execute_tool                                              *)

\* The names execute_tool has a branch for
DispatchNames == ALL_TOOLS \cup {"search_datasets"}

\* Whether execute_tool raises KeyError reading a required argument
MissingArgument(tc) == tc.name \in DispatchNames /\ tc.arg = "nokey"

\* Whether execute_tool starts a sub-agent loop for the call
StartsSubAgent(tc) ==
    tc.name = "Task" /\ ~MissingArgument(tc) /\ KnownAgentType(tc.arg)

\* Whether execute_tool enters a handler that returns without a sub-agent loop
EntersHandler(tc) ==
    tc.name \in DispatchNames /\ ~MissingArgument(tc) /\ ~StartsSubAgent(tc)

\* The items of a TodoWrite call of this model
TodoListOf(arg) ==
    IF arg = "two in progress"
    THEN <<TodoItem(<<"b">>, "in_progress", <<"B">>), TodoItem(<<"c">>, "in_progress", <<"C">>)>>
    ELSE <<TodoItem(<<"a">>, "pending", <<"A">>)>>

\* What execute_tool returns for a call that starts no sub-agent loop: the
\* text of "Unknown tool", of run_task's "Unknown agent type", of run_todo's
\* "Error: ..." (here the ValueError alone), or a handler's output
Output(tc) ==
    IF tc.name \notin DispatchNames THEN "Unknown tool"
    ELSE IF tc.name = "Task" THEN "Unknown agent type"
    ELSE IF tc.name = "TodoWrite" /\ update(items, TodoListOf(tc.arg)).outcome # "rendered"
    THEN update(items, TodoListOf(tc.arg)).outcome
    ELSE "output"

NoExec == [name |-> "none", agent |-> "main", arg |-> "none", returned |-> "none"]

NoTaskEnd == [how |-> "none", output |-> "none", requests |-> 0]

Entered(tc, agent) ==
    [name |-> tc.name, agent |-> agent, arg |-> tc.arg, returned |-> "none"]

FreePids == {p \in Pids : procs[p] = "absent"}

\* What a call that returns without a sub-agent loop does to the machine:
\* run_bash with background=True launches the command, takes the pid the shell
\* prints and registers it; every other handler of the model leaves the job
\* table alone.  A name execute_tool does not know enters no handler.
HandlerEffects(tc, agent) ==
    /\ last_exec' = IF EntersHandler(tc)
                    THEN [Entered(tc, agent) EXCEPT !.returned = Output(tc)]
                    ELSE [NoExec EXCEPT !.returned = Output(tc)]
    /\ IF EntersHandler(tc) /\ tc.name = "TodoWrite"
       THEN RunUpdate(TodoListOf(tc.arg))
       ELSE UNCHANGED todoVars
    /\ IF EntersHandler(tc) /\ tc.name = "bash" /\ tc.arg = "bg" /\ FreePids # {}
       THEN \E p \in FreePids :
              LET r == add_job(jobs, StrPid(IntToText(p)), "train", LogOf("train"), clock)
              IN  /\ procs' = [procs EXCEPT ![p] = "running"]
                  /\ jobs' = r.jobs
                  /\ add_outcome' = r.outcome
       ELSE UNCHANGED <<procs, jobs, add_outcome>>
    /\ UNCHANGED <<clock, summary, argVars>>

NoEffects ==
    /\ last_exec' = NoExec
    /\ UNCHANGED <<jobVars, todoVars, argVars>>

----------------------------------------------------------------------------
(* main.py agent_loop                                                      *)

MAX_STEPS == 10

Sentinel == "(subagent step limit reached)"

\* {"role": "system", "content": sub_system}: the text names the agent type.
\* Each run_task activation builds its own two dicts; uid tells the dicts of
\* one nesting level from those of another.
SubSystemPrompt(agent_type, level) ==
    Message("system", IF agent_type = "explore" THEN "You are a explore subagent"
                      ELSE "You are a code subagent", <<level>>, <<>>, NoId)

\* {"role": "user", "content": prompt}
TaskPrompt(level) == Message("user", "TASK PROMPT", <<level>>, <<>>, NoId)

NewFrameInheritsHistory(agent_type, level) ==
    [ agent_type   |-> agent_type,
      level        |-> level,
      sub_tools    |-> get_tools_for_agent(agent_type),
      sub_messages |-> messages \o <<SubSystemPrompt(agent_type, level), TaskPrompt(level)>>,
      request      |-> <<>>,
      step         |-> 0,
      requests     |-> 0,
      pc           |-> "loop",
      tool_calls   |-> <<>> ]

\* The frame run_task builds before its loop (request: the messages of the
\* completion request it sent last)
NewFrame(agent_type, level) ==
    [ agent_type   |-> agent_type,
      level        |-> level,
      sub_tools    |-> get_tools_for_agent(agent_type),
      sub_messages |-> <<SubSystemPrompt(agent_type, level), TaskPrompt(level)>>,
      request      |-> <<>>,
      step         |-> 0,
      requests     |-> 0,
      pc           |-> "loop",
      tool_calls   |-> <<>> ]

IssueRequestPersistsStatus ==
    /\ pc = "awaiting"
    /\ turn < MaxTurns
    /\ LET r == check_jobs(jobs, procs)
       IN  /\ jobs' = r.jobs
           /\ summary' = r.report
           /\ messages' = Append(messages, StatusPayload(r.report))
           /\ request_messages' = messages'
    /\ turn' = turn + 1
    /\ pc' = "requesting"
    /\ last_exec' = NoExec
    /\ task_end' = NoTaskEnd
    /\ UNCHANGED <<procs, clock, add_outcome, todoVars, argVars, response_message,
                   tool_calls, api_error, stack, below>>

IssueRequestOnceOnly ==
    /\ pc = "awaiting"
    /\ turn < 1
    /\ LET r == check_jobs(jobs, procs)
       IN  /\ jobs' = r.jobs
           /\ summary' = r.report
           /\ request_messages' = messages \o <<StatusPayload(r.report)>>
    /\ turn' = turn + 1
    /\ pc' = "requesting"
    /\ last_exec' = NoExec
    /\ task_end' = NoTaskEnd
    /\ UNCHANGED <<procs, clock, add_outcome, todoVars, argVars, messages, response_message,
                   tool_calls, api_error, stack, below>>

\* The top of the loop: the status message is built (which polls the job
\* tracker) and the completion request is sent with history + status.
IssueRequest ==
    /\ pc = "awaiting"
    /\ turn < MaxTurns
    /\ LET r == check_jobs(jobs, procs)
       IN  /\ jobs' = r.jobs
           /\ summary' = r.report
           /\ request_messages' = messages \o <<StatusPayload(r.report)>>
    /\ turn' = turn + 1
    /\ pc' = "requesting"
    /\ last_exec' = NoExec
    /\ task_end' = NoTaskEnd
    /\ UNCHANGED <<procs, clock, add_outcome, todoVars, argVars, messages, response_message,
                   tool_calls, api_error, stack, below>>

BackendErrorRetries ==
    /\ pc = "requesting"
    /\ pc' = "awaiting"
    /\ api_error' = TRUE
    /\ last_exec' = NoExec
    /\ task_end' = NoTaskEnd
    /\ UNCHANGED <<jobVars, todoVars, argVars, messages, request_messages, response_message,
                   tool_calls, turn, stack, below>>

\* except Exception as e: ... return messages
BackendError ==
    /\ pc = "requesting"
    /\ pc' = "returned"
    /\ api_error' = TRUE
    /\ last_exec' = NoExec
    /\ task_end' = NoTaskEnd
    /\ UNCHANGED <<jobVars, todoVars, argVars, messages, request_messages, response_message,
                   tool_calls, turn, stack, below>>

TerminalReplyTwice ==
    /\ pc = "requesting"
    /\ response_message' = Assistant(0, turn, <<>>)
    /\ messages' = messages \o <<response_message', response_message'>>
    /\ pc' = "awaiting"
    /\ last_exec' = NoExec
    /\ task_end' = NoTaskEnd
    /\ UNCHANGED <<jobVars, todoVars, argVars, request_messages, tool_calls, turn, api_error,
                   stack, below>>

\* if not tool_calls: messages.append(response_message); return messages
TerminalReply ==
    /\ pc = "requesting"
    /\ response_message' = Assistant(0, turn, <<>>)
    /\ messages' = Append(messages, response_message')
    /\ pc' = "returned"
    /\ last_exec' = NoExec
    /\ task_end' = NoTaskEnd
    /\ UNCHANGED <<jobVars, todoVars, argVars, request_messages, tool_calls, turn, api_error,
                   stack, below>>

\* messages.append(response_message), then the for loop over tool_calls starts
ToolReply(calls) ==
    /\ pc = "requesting"
    /\ tool_calls' = WithIds(calls, 0, turn)
    /\ response_message' = Assistant(0, turn, tool_calls')
    /\ messages' = Append(messages, response_message')
    /\ pc' = "executing"
    /\ last_exec' = NoExec
    /\ task_end' = NoTaskEnd
    /\ UNCHANGED <<jobVars, todoVars, argVars, request_messages, turn, api_error, stack, below>>

NextCallOverwrites(id, content) ==
    /\ messages' = Append(Front(messages), ToolMessage(id, content))
    /\ tool_calls' = Tail(tool_calls)
    /\ pc' = IF Tail(tool_calls) = <<>> THEN "awaiting" ELSE "executing"

\* The for loop of agent_loop moves to the next tool call, or the while loop
\* to its next iteration: one tool message is appended for the call just
\* processed.
NextCall(id, content) ==
    /\ messages' = Append(messages, ToolMessage(id, content))
    /\ tool_calls' = Tail(tool_calls)
    /\ pc' = IF Tail(tool_calls) = <<>> THEN "awaiting" ELSE "executing"

ParseErrorAborts ==
    /\ pc = "executing" /\ stack = <<>> /\ tool_calls # <<>>
    /\ ~safe_parse_json_ok(Head(tool_calls))
    /\ pc' = "returned"
    /\ NoEffects
    /\ task_end' = NoTaskEnd
    /\ UNCHANGED <<messages, tool_calls, request_messages, response_message, turn,
                   api_error, stack, below>>

\* safe_parse_json raises: the except branch appends the diagnostic
ParseError ==
    /\ pc = "executing" /\ stack = <<>> /\ tool_calls # <<>>
    /\ ~safe_parse_json_ok(Head(tool_calls))
    /\ NextCall(Head(tool_calls).id, "Tool Error")
    /\ NoEffects
    /\ task_end' = NoTaskEnd
    /\ UNCHANGED <<request_messages, response_message, turn, api_error, stack, below>>

\* execute_tool raises: the except branch appends the diagnostic
ToolRaises ==
    /\ pc = "executing" /\ stack = <<>> /\ tool_calls # <<>>
    /\ safe_parse_json_ok(Head(tool_calls))
    /\ MissingArgument(Head(tool_calls))
    /\ NextCall(Head(tool_calls).id, "Tool Error")
    /\ NoEffects
    /\ task_end' = NoTaskEnd
    /\ UNCHANGED <<request_messages, response_message, turn, api_error, stack, below>>

ToolReturnsFatalOnError ==
    /\ pc = "executing" /\ stack = <<>> /\ tool_calls # <<>>
    /\ safe_parse_json_ok(Head(tool_calls))
    /\ ~MissingArgument(Head(tool_calls))
    /\ ~StartsSubAgent(Head(tool_calls))
    /\ IF Output(Head(tool_calls)) = "output"
       THEN NextCall(Head(tool_calls).id, "output")
       ELSE pc' = "returned" /\ UNCHANGED <<messages, tool_calls>>
    /\ HandlerEffects(Head(tool_calls), "main")
    /\ task_end' = NoTaskEnd
    /\ UNCHANGED <<request_messages, response_message, turn, api_error, stack, below>>

\* execute_tool returns a string (a handler's result, run_task's "Unknown agent
\* type" or "Unknown tool"): the tool message carries str(output)
ToolReturns ==
    /\ pc = "executing" /\ stack = <<>> /\ tool_calls # <<>>
    /\ safe_parse_json_ok(Head(tool_calls))
    /\ ~MissingArgument(Head(tool_calls))
    /\ ~StartsSubAgent(Head(tool_calls))
    /\ NextCall(Head(tool_calls).id, "output")
    /\ HandlerEffects(Head(tool_calls), "main")
    /\ task_end' = NoTaskEnd
    /\ UNCHANGED <<request_messages, response_message, turn, api_error, stack, below>>

\* execute_tool calls run_task, which builds its history and enters its loop
TaskStart ==
    /\ pc = "executing" /\ stack = <<>> /\ tool_calls # <<>>
    /\ safe_parse_json_ok(Head(tool_calls))
    /\ StartsSubAgent(Head(tool_calls))
    /\ stack' = <<NewFrame(Head(tool_calls).arg, 1)>>
    /\ last_exec' = Entered(Head(tool_calls), "main")
    /\ task_end' = NoTaskEnd
    /\ UNCHANGED <<jobVars, todoVars, argVars, pc, messages, request_messages, response_message,
                   tool_calls, turn, api_error, below>>

----------------------------------------------------------------------------
(* tools/impl.py run_task                                                  *)

Top == stack[Len(stack)]

SetTop(f) == [stack EXCEPT ![Len(stack)] = f]

\* while step < MAX_STEPS
StepAllowed(step) == step < MAX_STEPS

\* The frame of the caller once the tool message of its Task call is appended
\* and its for loop has moved on
Resume(caller, content) ==
    [caller EXCEPT
        !.sub_messages = Append(@, ToolMessage(Head(caller.tool_calls).id, content)),
        !.tool_calls   = Tail(@),
        !.pc           = IF Tail(caller.tool_calls) = <<>> THEN "loop" ELSE "executing"]

\* run_task returns out: its caller (execute_tool, for agent_loop or for the
\* run_task one level up) appends the tool message of the Task call, whose
\* content is str(output) as for every tool that returns.  When the
\* caller is an activation older than those in stack, the older activations
\* are taken to return at once.
Return(out, how) ==
    /\ task_end' = [how |-> how, output |-> out, requests |-> Top.requests]
    /\ last_exec' = NoExec
    /\ IF Len(stack) > 1
       THEN /\ stack' = Append(SubSeq(stack, 1, Len(stack) - 2),
                               Resume(stack[Len(stack) - 1], "output"))
            /\ UNCHANGED <<messages, tool_calls, pc, below>>
       ELSE /\ stack' = <<>>
            /\ below' = FALSE
            /\ NextCall(Head(tool_calls).id, "output")
    /\ UNCHANGED <<jobVars, todoVars, argVars, request_messages, response_message, turn, api_error>>

\* step += 1; client.chat.completions.create(messages=sub_messages, ...)
SubRequest ==
    /\ stack # <<>> /\ Top.pc = "loop"
    /\ StepAllowed(Top.step)
    /\ stack' = SetTop([Top EXCEPT !.step = @ + 1, !.requests = @ + 1,
                                   !.request = Top.sub_messages,
                                   !.pc = "requesting"])
    /\ last_exec' = NoExec
    /\ task_end' = NoTaskEnd
    /\ UNCHANGED <<jobVars, todoVars, argVars, pc, messages, request_messages, response_message,
                   tool_calls, turn, api_error, below>>

\* the while loop ends: return "(subagent step limit reached)"
SubStepLimit ==
    /\ stack # <<>> /\ Top.pc = "loop"
    /\ ~StepAllowed(Top.step)
    /\ Return(Sentinel, "step_limit")

\* except Exception as e: return f"Subagent Error: {e}"
SubBackendError ==
    /\ stack # <<>> /\ Top.pc = "requesting"
    /\ Return("Subagent Error", "api_error")

\* if not tool_calls: return response_message.content or "(subagent finished)"
SubTerminalReply ==
    /\ stack # <<>> /\ Top.pc = "requesting"
    /\ Return("(subagent finished)", "finished")

\* sub_messages.append(response_message), then the for loop over tool_calls
SubReplyBody(calls) ==
    /\ stack # <<>> /\ Top.pc = "requesting"
    /\ LET tcs == WithIds(calls, Top.level, Top.step)
       IN  stack' = SetTop([Top EXCEPT
                !.sub_messages = Append(@, Assistant(Top.level, Top.step, tcs)),
                !.tool_calls   = tcs,
                !.pc           = "executing"])
    /\ last_exec' = NoExec
    /\ task_end' = NoTaskEnd
    /\ UNCHANGED <<jobVars, todoVars, argVars, pc, messages, request_messages, response_message,
                   tool_calls, turn, api_error, below>>

AsksForSubAgent(calls) == \E i \in 1..Len(calls) : StartsSubAgent(calls[i])

\* The rounds in which the backend asks a sub-agent for a further sub-agent
\* in this model: its first and its last.
NestingRounds == {1, MAX_STEPS}

SubToolReply(calls) ==
    /\ stack # <<>>
    /\ AsksForSubAgent(calls) => Len(stack) < MaxDepth /\ Top.step \in NestingRounds
    /\ SubReplyBody(calls)

\* json.loads and execute_tool return: the tool message carries the output
SubToolReturns ==
    /\ stack # <<>> /\ Top.pc = "executing"
    /\ json_loads_ok(Head(Top.tool_calls))
    /\ ~MissingArgument(Head(Top.tool_calls))
    /\ ~StartsSubAgent(Head(Top.tool_calls))
    /\ stack' = SetTop(Resume(Top, "output"))
    /\ HandlerEffects(Head(Top.tool_calls), Top.agent_type)
    /\ task_end' = NoTaskEnd
    /\ UNCHANGED <<pc, messages, request_messages, response_message, tool_calls, turn,
                   api_error, below>>

\* json.loads or execute_tool raises: run_task has no handler, so the
\* exception leaves every run_task activation and reaches the except branch
\* of agent_loop, which appends the diagnostic for its own Task call.
SubToolRaises ==
    /\ stack # <<>> /\ Top.pc = "executing"
    /\ ~json_loads_ok(Head(Top.tool_calls)) \/ MissingArgument(Head(Top.tool_calls))
    /\ task_end' = [how |-> "raised", output |-> "none", requests |-> Top.requests]
    /\ stack' = <<>>
    /\ below' = FALSE
    /\ NextCall(Head(tool_calls).id, "Tool Error")
    /\ NoEffects
    /\ UNCHANGED <<request_messages, response_message, turn, api_error>>

\* execute_tool calls run_task from inside a sub-agent
SubTaskStartBody(older) ==
    /\ stack # <<>> /\ Top.pc = "executing"
    /\ json_loads_ok(Head(Top.tool_calls))
    /\ StartsSubAgent(Head(Top.tool_calls))
    /\ stack' = Append(older, NewFrame(Head(Top.tool_calls).arg, Len(older) + 1))
    /\ last_exec' = Entered(Head(Top.tool_calls), Top.agent_type)
    /\ task_end' = NoTaskEnd
    /\ UNCHANGED <<jobVars, todoVars, argVars, pc, messages, request_messages, response_message,
                   tool_calls, turn, api_error>>

SubTaskStart ==
    /\ Len(stack) < MaxDepth
    /\ SubTaskStartBody(stack)
    /\ UNCHANGED below

\* Nesting beyond the activations the model follows: the reply asks for a
\* further sub-agent, and the oldest activation followed leaves stack.
DeepToolReply(calls) ==
    /\ Len(stack) = MaxDepth /\ AsksForSubAgent(calls) /\ Top.step \in NestingRounds
    /\ SubReplyBody(calls)

DeepTaskStart ==
    /\ Len(stack) = MaxDepth
    /\ SubTaskStartBody(Tail(stack))
    /\ below' = TRUE

----------------------------------------------------------------------------
(* Specifications.                                                         *)

NoMessage == Message("none", "none", NoId, <<>>, NoId)

\* The state of the process when agent_loop is entered
Started ==
    /\ jobs = <<>>
    /\ procs = [p \in Pids |-> "absent"]
    /\ clock = 0
    /\ summary = <<>>
    /\ add_outcome = "none"
    /\ items = <<>>
    /\ todo_outcome = "none"
    /\ todo_text = <<>>
    /\ pc = "awaiting"
    /\ messages = <<SystemPrompt, UserPrompt>>
    /\ request_messages = <<>>
    /\ response_message = NoMessage
    /\ tool_calls = <<>>
    /\ turn = 0
    /\ api_error = FALSE
    /\ stack = <<>>
    /\ below = FALSE
    /\ last_exec = NoExec
    /\ task_end = NoTaskEnd
    /\ func_args = NotParsed
    /\ wait_outcome = NoWait
    /\ granted = NoGrant
    /\ bash_result = NoBash

Init == Started /\ arguments = <<>>

\* agent_loop with its sub-agents
AgentNext ==
    \/ IssueRequest
    \/ BackendError
    \/ TerminalReply
    \/ \E calls \in TopReplies : ToolReply(calls)
    \/ ParseError
    \/ ToolRaises
    \/ ToolReturns
    \/ TaskStart
    \/ SubRequest
    \/ SubStepLimit
    \/ SubBackendError
    \/ SubTerminalReply
    \/ \E calls \in SubReplies : SubToolReply(calls)
    \/ SubToolReturns
    \/ SubToolRaises
    \/ SubTaskStart

Next == AgentNext

Spec == Init /\ [][Next]_vars

\* agent_loop with sub-agents nested without bound; every step the program
\* can take is eventually taken (each completion request and each handler
\* returns).
DeepNext ==
    \/ AgentNext
    \/ \E calls \in SubReplies : DeepToolReply(calls)
    \/ DeepTaskStart

LiveSpec == Init /\ [][DeepNext]_vars /\ WF_vars(DeepNext)

\* The job tracker under any sequence of add_job and check_jobs calls, with
\* the operating system starting and ending processes in between.
JobNext ==
    \/ \E pid \in PidInputs, cmd \in Cmds : AddJob(pid, cmd)
    \/ CheckJobs
    \/ \E p \in Pids : ProcStart(p)
    \/ \E p \in Pids : ProcExit(p)
    \/ \E p \in Pids : ProcReap(p)
    \/ Tick

JobSpec == Init /\ [][JobNext]_vars

\* The todo manager under any sequence of update calls
TodoNext == \E list \in ListInputs : Update(list)

TodoSpec == Init /\ [][TodoNext]_vars

\* Background launches through run_bash, the status polls between them, and
\* the operating system ending the launched processes and freeing their pids
BashNext ==
    \/ \E cmd \in Cmds, p \in Pids :
          \E stdout \in Captured(p) : RunBashBackground(cmd, p, stdout)
    \/ \E cmd \in Cmds : RunBashFails(cmd)
    \/ CheckJobs
    \/ \E p \in Pids : ProcExit(p)
    \/ \E p \in Pids : ProcReap(p)
    \/ Tick

BashSpec == Init /\ [][BashNext]_vars

\* One tool call of the wait tool, with any of the argument texts: its
\* arguments are parsed and the tool is executed
ArgInit == Started /\ arguments \in Payloads

ArgNext == Parse \/ Wait

ArgSpec == ArgInit /\ [][ArgNext]_vars

\* get_tools_for_agent called for agent types with any allowed-tool
\* specification
ToolNext == \E allowed \in AllowedSpecs : GetTools(allowed)

ToolSpec == Init /\ [][ToolNext]_vars

----------------------------------------------------------------------------
(* Properties of agent_loop.                                               *)

AssistantIndexes == {i \in 1..Len(messages) : messages[i].role = "assistant"}

\* The position in the history of the newest assistant message (0: none)
LastAssistant ==
    IF AssistantIndexes = {} THEN 0
    ELSE CHOOSE i \in AssistantIndexes : \A j \in AssistantIndexes : j <= i

Occurrences(list, m) == Cardinality({i \in 1..Len(list) : list[i] = m})

\* C1: when the backend's reply carries no tool calls, agent_loop appends
\* exactly that message, once, and returns; after its return it issues no
\* completion request, appends nothing and runs no tool.
C1_TerminalReplyReturnsOnce ==
    [][ /\ (pc = "requesting" /\ pc' # "requesting" /\ ~api_error'
              /\ response_message'.tool_calls = <<>>)
          => /\ messages' = Append(messages, response_message')
             /\ Occurrences(messages', response_message') = 1
             /\ response_message'.uid = <<0, turn>>
             /\ pc' = "returned"
        /\ pc = "returned"
          => /\ pc' = "returned"
             /\ turn' = turn
             /\ messages' = messages
             /\ request_messages' = request_messages
             /\ last_exec' = last_exec
             /\ stack' = stack ]_vars

C1_Witness ==
    /\ pc = "returned" /\ ~api_error /\ turn = 2
    /\ Last(messages) = response_message
    /\ response_message.tool_calls = <<>>
    /\ Len(messages) > 4

\* C2: the persistent history never holds a status message; every completion
\* request of agent_loop is the history followed by one status message.
C2_StatusNeverPersisted ==
    /\ \A i \in 1..Len(messages) : ~IsStatus(messages[i])
    /\ pc = "requesting"
         => /\ request_messages = Append(messages, Last(request_messages))
            /\ IsStatus(Last(request_messages))
    /\ turn > 0
         => /\ IsStatus(Last(request_messages))
            /\ \A i \in 1..(Len(request_messages) - 1) : ~IsStatus(request_messages[i])

C2_Witness ==
    /\ pc = "returned" /\ api_error /\ turn = 2
    /\ DOMAIN Last(request_messages).job_status # {}
    /\ Len(messages) > 4

\* C3: when a completion request fails, agent_loop returns at once: the
\* history is the one the failed request was built from, no tool has run, no
\* further request was issued (each earlier request was answered).
C3_BackendFailureReturns ==
    api_error
      => /\ pc = "returned"
         /\ request_messages = Append(messages, Last(request_messages))
         /\ turn = Cardinality(AssistantIndexes) + 1
         /\ tool_calls = <<>>
         /\ stack = <<>>
         /\ last_exec = NoExec

C3_Witness ==
    /\ api_error /\ turn = 2
    /\ Len(messages) > 3
    /\ Last(messages).role = "tool"

\* C4: for an assistant message with tool calls t1..tn, the tool calls are
\* processed in order; the history after the assistant message is the tool
\* messages of the calls processed so far, the i-th with the id of ti, the
\* calls still to be processed are the rest, and the loop requests its next
\* completion (or is stopped) only with all n tool messages appended: no failed
\* call ends the loop or skips a call.
C4_EveryCallAnswered ==
    turn > 0 /\ LastAssistant > 0
      => LET k    == LastAssistant
             ids  == messages[k].tool_calls
             n    == Len(ids)
             done == Len(messages) - k
         IN  /\ done <= n
             /\ \A i \in 1..done :
                  /\ messages[k + i].role = "tool"
                  /\ messages[k + i].tool_call_id = ids[i]
             /\ Ids(tool_calls) = SubSeq(ids, done + 1, n)
             /\ (pc = "executing") = (done < n)
             /\ pc = "returned" /\ ~api_error => n = 0

C4_Witness ==
    /\ pc = "requesting" /\ turn = 2
    /\ Len(messages[LastAssistant].tool_calls) = 3
    /\ Len(messages) = LastAssistant + 3
    /\ messages[LastAssistant + 1].content = "Tool Error"
    /\ messages[LastAssistant + 2].content = "Tool Error"
    /\ messages[LastAssistant + 3].content = "output"

\* C24: every step of agent_loop leaves the history it had as it was and adds
\* messages only at its end, in turn order: an assistant message once every
\* call of the turn before has its tool message, and a tool message for the
\* first call not yet answered.
C24_HistoryAppendOnly ==
    [][ /\ Len(messages') >= Len(messages)
        /\ SubSeq(messages', 1, Len(messages)) = messages
        /\ \A i \in (Len(messages) + 1)..Len(messages') :
              \/ /\ messages'[i].role = "assistant"
                 /\ i = Len(messages) + 1
                 /\ tool_calls = <<>>
                 /\ messages'[i] = response_message'
              \/ /\ messages'[i].role = "tool"
                 /\ Len(tool_calls) >= i - Len(messages)
                 /\ messages'[i].tool_call_id = tool_calls[i - Len(messages)].id ]_vars

C24_Witness ==
    /\ turn = 2 /\ pc = "awaiting"
    /\ Len(messages) >= 7
    /\ messages[3].role = "assistant"
    /\ messages[4].role = "tool"
    /\ Last(messages).role = "tool"
    /\ \E i \in 5..(Len(messages) - 1) : messages[i].role = "assistant"


\* C25: agent_loop has returned only after a failed completion request or
\* after an assistant message without tool calls, and whenever every call of
\* a turn has been answered it can issue its next completion request, however
\* many turns with tool calls came before (up to the turns this model follows).
C25_NoTurnLimit ==
    /\ pc = "returned"
         => \/ api_error
            \/ /\ Last(messages).role = "assistant"
               /\ Last(messages).tool_calls = <<>>
    /\ pc = "awaiting" /\ turn < MaxTurns => ENABLED IssueRequest
    /\ pc # "returned" /\ tool_calls = <<>> /\ stack = <<>> => pc \in {"awaiting", "requesting"}

\* A completion request issued after a turn with tool calls
C25_Witness ==
    /\ pc = "requesting" /\ turn = MaxTurns
    /\ AssistantIndexes # {}
    /\ \A i \in AssistantIndexes : messages[i].tool_calls # <<>>
    /\ Last(messages).role = "tool"

----------------------------------------------------------------------------
(* Properties of run_task and execute_tool.                                *)

Restricted(agent) == KnownAgentType(agent) /\ ~AGENT_TYPES[agent].wildcard

\* C5: inside a sub-agent whose agent type has an explicit allowed-tool set,
\* no handler of a tool outside that set is entered (no shell command runs,
\* no job is registered for it).
C5_RestrictedToolRejected ==
    Restricted(last_exec.agent) => last_exec.name \in get_tools_for_agent(last_exec.agent)

\* C6: a run_task activation in which every completion request was answered
\* with tool calls ends by returning the sentinel text after exactly MAX_STEPS
\* completion requests, and no activation issues more than MAX_STEPS.
C6_StoppedAtStepCeiling ==
    /\ \A i \in 1..Len(stack) : stack[i].requests <= MAX_STEPS
    /\ task_end.how \in {"step_limit", "raised"}
         => /\ task_end.how = "step_limit"
            /\ task_end.output = Sentinel
            /\ task_end.requests = MAX_STEPS

\* C7: every run_task activation eventually returns to its caller: whenever
\* a sub-agent is running, eventually none is.
C7_RunTaskReturns == (stack # <<>>) ~> (stack = <<>>)

\* C18: a sub-agent's tool call that starts no further sub-agent always ends
\* with its tool message, carrying the call's id, appended to the sub-agent's
\* history and the sub-agent going on with its remaining calls and rounds.
\* The message carries the tool's output when the argument text is one
\* safe_parse_json accepts (a fenced object included) and the tool does not
\* fail, and a diagnostic otherwise.
C18_SubLoopHandlesFailures ==
    [][ ( /\ stack # <<>>
          /\ Top.pc = "executing"
          /\ ~( /\ safe_parse_json_ok(Head(Top.tool_calls))
                /\ StartsSubAgent(Head(Top.tool_calls)) ) )
        => LET tc == Head(Top.tool_calls)
               ok == safe_parse_json_ok(tc) /\ tc.arg # "nokey"
           IN  /\ Len(stack') = Len(stack)
               /\ stack'[Len(stack)].sub_messages
                    = Append(Top.sub_messages,
                             ToolMessage(tc.id, IF ok THEN "output" ELSE "Tool Error"))
               /\ stack'[Len(stack)].tool_calls = Tail(Top.tool_calls)
               /\ stack'[Len(stack)].requests = Top.requests ]_vars

----------------------------------------------------------------------------
(* Properties of the job tracker.                                          *)

\* C8: once a check_jobs call has reported a registered pid as done, every
\* later check_jobs call reports it as done.
C8_ReportedDoneStaysDone ==
    [][ \A p \in DOMAIN summary :
          summary[p] = "done" => (p \in DOMAIN summary' /\ summary'[p] = "done") ]_vars

\* C20: a stored status that is done stays done, whatever add_job and
\* check_jobs calls follow and whatever becomes of the pid.
C20_StoredDoneStaysDone ==
    [][ \A p \in DOMAIN jobs :
          jobs[p].status = "done" => (p \in DOMAIN jobs' /\ jobs'[p].status = "done") ]_vars

\* C21: a job once in the table stays in it, with the command, the log path
\* and the start time it was registered with, whatever add_job and check_jobs
\* calls follow.
C21_JobRecordKept ==
    [][ \A p \in DOMAIN jobs :
          /\ p \in DOMAIN jobs'
          /\ jobs'[p].cmd = jobs[p].cmd
          /\ jobs'[p].log = jobs[p].log
          /\ jobs'[p].start_time = jobs[p].start_time ]_vars

\* C28: when a background launch returns the text that says the job has been
\* registered, the table holds an entry under the pid the text names, for the
\* launched command and with stored status running; the pid text it names is
\* an integer.
C28_ReportedLaunchRegistered ==
    [][ bash_result' # bash_result /\ bash_result'.text = "Background task started"
          => LET n == PyInt(StrPid(bash_result'.pid))
             IN  /\ n.ok
                 /\ n.v \in DOMAIN jobs'
                 /\ jobs'[n.v].cmd = bash_result'.cmd
                 /\ jobs'[n.v].status = "running" ]_vars

\* it rejects.
IntegerPids ==
    { <<IntPid(7), 7>>, <<IntPid(12), 12>>, <<StrPid(<<"7">>), 7>>,
      <<StrPid(<<"1", "2">>), 12>>, <<StrPid(<<" ", "7", " ">>), 7>>,
      <<StrPid(<<"+", "7">>), 7>> }

NonIntegerPids ==
    { StrPid(<<>>), StrPid(<<"x">>), StrPid(<<"7", "x">>), StrPid(<<"-">>),
      StrPid(<<"1", " ", "2">>) }

\* C9: add_job called with a pid that is no integer leaves the job table as
\* it was and does not raise; called with an integer or the text of one it
\* stores the job under the integer; every key of the table is an integer.
C9_AddJobCoercesPid ==
    /\ [](/\ \A p \in DOMAIN jobs : p \in Int
          /\ add_outcome # "raised")
    /\ [][ \A cmd \in Cmds :
             /\ \A pid \in NonIntegerPids :
                  AddJob(pid, cmd) => jobs' = jobs /\ add_outcome' = "rejected"
             /\ \A e \in IntegerPids :
                  AddJob(e[1], cmd)
                    => /\ DOMAIN jobs' = DOMAIN jobs \cup {e[2]}
                       /\ jobs'[e[2]].cmd = cmd
                       /\ add_outcome' = "stored" ]_vars

C9_Witness ==
    /\ add_outcome = "rejected"
    /\ DOMAIN jobs = {7, 12}
    /\ jobs[12].cmd = "eval"

----------------------------------------------------------------------------
(* Properties of the todo manager.                                         *)

\* C10: the stored todo list never holds more than one in_progress item.
C10_AtMostOneInProgress == InProgressCount(items) <= 1

C10_Witness ==
    /\ InProgressCount(items) = 1
    /\ Len(items) = 3
    /\ todo_outcome = "Only one task can be in_progress"

----------------------------------------------------------------------------
(* Properties of the sub-agent's history.                                  *)

Holds(list, m) == \E i \in 1..Len(list) : list[i] = m

\* The history of the caller of the activation stack[k]
ParentHistory(k) == IF k = 1 THEN messages ELSE stack[k - 1].sub_messages

\* m is an assistant or tool message produced at this nesting level
OwnMessage(m, level) ==
    \/ m.role = "assistant" /\ m.uid[1] = level
    \/ m.role = "tool" /\ m.tool_call_id[1] = level

\* C12: the history of a sub-agent is its system prompt and the task prompt
\* followed only by its own assistant and tool messages; its first request
\* carries exactly those two messages and every request a prefix of its
\* history; no message of its caller's history is in it, the top-level
\* history holds only top-level messages, and when run_task returns the
\* caller's history ends with the one tool message of the Task call, carrying
\* the returned output.
C12_SubAgentHistoryIsolated ==
    /\ \A k \in 1..Len(stack) :
         LET f == stack[k]
         IN  /\ Len(f.sub_messages) >= 2
             /\ f.sub_messages[1] = SubSystemPrompt(f.agent_type, f.level)
             /\ f.sub_messages[2] = TaskPrompt(f.level)
             /\ \A i \in 3..Len(f.sub_messages) : OwnMessage(f.sub_messages[i], f.level)
             /\ f.requests = 0 => f.request = <<>>
             /\ f.requests = 1 => f.request = <<SubSystemPrompt(f.agent_type, f.level), TaskPrompt(f.level)>>
             /\ f.request = SubSeq(f.sub_messages, 1, Len(f.request))
             /\ f.pc = "requesting" => f.request = f.sub_messages
             /\ \A i \in 1..Len(f.sub_messages) :
                  ~Holds(ParentHistory(k), f.sub_messages[i])
    /\ messages[1] = SystemPrompt /\ messages[2] = UserPrompt
    /\ \A i \in 3..Len(messages) : OwnMessage(messages[i], 0)
    /\ task_end.how \in {"step_limit", "api_error", "finished"} /\ stack = <<>>
         => /\ Last(messages).role = "tool"
            /\ Last(messages).content = "output"
            /\ Holds(messages[LastAssistant].tool_calls, Last(messages).tool_call_id)
            /\ \A i \in (LastAssistant + 1)..(Len(messages) - 1) :
                  messages[i].tool_call_id # Last(messages).tool_call_id

\* A sub-agent inside a sub-agent, in its second round, while the top-level
\* history already holds tool messages
C12_Witness ==
    /\ Len(stack) = 2
    /\ Len(messages) > 3
    /\ Top.requests = 2
    /\ Len(Top.request) = 4
    /\ Len(stack[1].sub_messages) > 2

\* The lists the todo manager is to reject: an item whose content or active
\* form is empty once stripped, an item whose status, lower-cased, is none of
\* the three, or more than one item in progress.
BlankText(t) == \A i \in 1..Len(t) : t[i] = " "

BadItem(item) ==
    \/ BlankText(item.content)
    \/ BlankText(item.activeForm)
    \/ item.status \notin {"pending", "in_progress", "IN_PROGRESS", "completed", "Completed"}

ToBeRejected(list) ==
    \/ \E i \in 1..Len(list) : BadItem(list[i])
    \/ Cardinality({i \in 1..Len(list) :
                       list[i].status \in {"in_progress", "IN_PROGRESS"}}) > 1

\* The tool calls that fail validation: a tool name execute_tool has no
\* branch for, a Task call naming no agent type of the registry, a TodoWrite
\* call whose list breaks a constraint - and the text reported for each
ValidationError(tc) ==
    IF tc.name \notin {"bash", "read_file", "search_datasets", "write_file", "edit_file",
                       "TodoWrite", "Task", "Skill", "wait"}
    THEN "Unknown tool"
    ELSE IF tc.name = "Task" /\ tc.arg \notin DOMAIN AGENT_TYPES THEN "Unknown agent type"
    ELSE IF tc.name = "TodoWrite" /\ ToBeRejected(TodoListOf(tc.arg))
    THEN "Only one task can be in_progress"
    ELSE "none"

\* C16: when agent_loop processes a tool call that fails validation (its
\* arguments parsed and complete), execute_tool returns the error text and
\* raises nothing; the tool message of the call is appended, with the call's
\* id; no sub-agent is started and no completion request issued for one; the
\* todo list is as before; and the loop goes on to the next call or, after
\* the last, to its next completion request.
C16_ValidationFailureReported ==
    [][ ( /\ pc = "executing" /\ stack = <<>> /\ tool_calls # <<>>
          /\ safe_parse_json_ok(Head(tool_calls))
          /\ Head(tool_calls).arg # "nokey"
          /\ ValidationError(Head(tool_calls)) # "none" )
        => /\ last_exec'.returned = ValidationError(Head(tool_calls))
           /\ messages' = Append(messages, ToolMessage(Head(tool_calls).id, "output"))
           /\ stack' = <<>>
           /\ items' = items
           /\ turn' = turn
           /\ tool_calls' = Tail(tool_calls)
           /\ pc' = IF tool_calls' = <<>> THEN "awaiting" ELSE "executing" ]_vars

\* After a turn whose calls named an unknown tool and broke the todo
\* constraints, and a turn whose call named an unknown agent type, the loop
\* is at its next call
C16_Witness ==
    /\ last_exec.returned = "Unknown agent type"
    /\ todo_outcome = "Only one task can be in_progress"
    /\ turn = 2
    /\ pc = "executing"
    /\ Len(messages) = 7

----------------------------------------------------------------------------
(* Properties of safe_parse_json and run_wait.                             *)

\* The argument text is the text of a valid JSON object
ValidObjectText(text) == json_loads(text).ok /\ json_loads(text).val.t = "obj"

\* C13: for an argument text that is a valid JSON object, safe_parse_json
\* returns from its step 2, and returns the mapping a strict JSON parse of
\* the text gives.
C13_ValidObjectParsedAsStrict ==
    func_args # NotParsed /\ ValidObjectText(arguments)
      => /\ func_args.ok
         /\ func_args.stage = 2
         /\ func_args.val = json_loads(arguments).val

\* C14: for an argument text that is a valid JSON object, safe_parse_json
\* gives for the text inside a fenced code block, with the json tag or
\* without, what it gives for the text itself.
C14_FencedParsedAsBare ==
    func_args # NotParsed /\ ValidObjectText(arguments)
      => \A w \in {"fenced json", "fenced"} :
            safe_parse_json(Wrapped(w, arguments)) = func_args

\* C11: an update that is rejected, that is, one that ends with a ValueError,
\* whichever of the validation rules it broke, leaves the stored list exactly
\* as it was and renders nothing.
C11_RejectedUpdateAppliesNothing ==
    [][ todo_outcome' # "rendered" => (items' = items /\ todo_text' = <<>>) ]_vars

C11_Witness ==
    /\ Len(items) = 2
    /\ items[1].status = "completed"
    /\ todo_outcome = "invalid status"

\* A submitted list with every item as update stores it: texts stripped, the
\* status in lower case
Normalised(list) ==
    [i \in 1..Len(list) |->
        TodoItem(Strip(list[i].content), Lower(list[i].status), Strip(list[i].activeForm))]

\* C22: the stored list never has more than 20 items, and whatever is stored,
\* an update that is accepted stores exactly the first 20 items of the
\* submitted list, normalised and in submitted order.
C22_UpdateReplacesWholesale ==
    /\ Len(items) <= 20
    /\ \A list \in ListInputs :
          LET r == update(items, list)
          IN  r.outcome = "rendered"
                => r.items = SubSeq(Normalised(list), 1,
                                    IF Len(list) < 20 THEN Len(list) ELSE 20)

\* A list of 22 items was accepted over a stored list: its first 20 are stored
C22_Witness ==
    /\ todo_outcome = "rendered"
    /\ Len(items) = 20
    /\ items[20] = TodoItem(<<"2", "0">>, "pending", <<"2", "2">>)

\* C23: for the wildcard get_tools_for_agent returns the base tools with Task
\* and Skill; for an explicit set it returns exactly the base tools the set
\* names, which never include Task or Skill.
C23_ToolsForAgent ==
    granted # NoGrant
      => IF granted.allowed.wildcard
         THEN granted.tools = BASE_TOOLS \cup {"Task", "Skill"}
         ELSE /\ granted.tools = BASE_TOOLS \cap granted.allowed.tools
              /\ granted.tools \subseteq BASE_TOOLS
              /\ "Task" \notin granted.tools
              /\ "Skill" \notin granted.tools

\* An explicit set that names Task and Skill was looked up
C23_Witness ==
    /\ ~granted.allowed.wildcard
    /\ {"Task", "Skill", "bash"} \subseteq granted.allowed.tools
    /\ "bash" \in granted.tools

\* C26: a text that safe_parse_json does not decode makes it raise the
\* ValueError whose message quotes the first 200 characters of the text, and
\* no more of it; no value is returned for it.
C26_FailureQuotesRawPrefix ==
    func_args # NotParsed /\ ~func_args.ok
      => /\ func_args.exception = "ValueError"
         /\ func_args.val = NoVal
         /\ Len(func_args.error) <= 200
         /\ func_args.error = SubSeq(arguments, 1, IF Len(arguments) < 200
                                                   THEN Len(arguments) ELSE 200)

\* C27: a value that comes from the regex rescue comes from a text that
\* json.loads and literal_eval both rejected and that holds the path key and
\* the content key, each in double quotes; it has the keys path, content and
\* append and no other, with append false.
C27_RegexRescueLast ==
    func_args.ok /\ func_args.stage = 4
      => LET cleaned == Preprocess(arguments)
         IN  /\ ~Decode(cleaned, "lax").ok
             /\ ~literal_eval(PythonStyle(cleaned)).ok
             /\ Contains(cleaned, <<Q, "p", "a", "t", "h", Q>>)
             /\ Contains(cleaned, <<Q, "c", "o", "n", "t", "e", "n", "t", Q>>)
             /\ func_args.val.t = "obj"
             /\ Keys(func_args.val.o) = {PathKey, ContentKey, AppendKey}
             /\ Get(func_args.val.o, AppendKey) = LitVal("false")

\* The rescue produced a value from a text with an unescaped quote
C27_Witness ==
    /\ func_args.ok /\ func_args.stage = 4
    /\ Get(func_args.val.o, PathKey) = StrVal(<<"f">>)
    /\ arguments[1] = "{"

\* C17: no tool handler raises: run_wait returns a text for every argument
\* it is given, and run_task returns a text however its sub-agent's tool
\* calls end.
C17_HandlersReturnText ==
    /\ wait_outcome.outcome \in {"none", "returned"}
    /\ task_end.how \in {"none", "step_limit", "api_error", "finished"}

\* C19: the wait tool returns a text for every duration asked of it, never
\* sleeps more than 3600 seconds, and for an integer s sleeps min(s, 3600).
C19_WaitSleepsClamped ==
    wait_outcome # NoWait
      => LET seconds == Get(func_args.val.o, SecondsKey)
         IN  /\ wait_outcome.outcome = "returned"
             /\ wait_outcome.slept <= 3600
             /\ seconds.t = "int"
                  => wait_outcome.slept = IF seconds.n < 3600 THEN seconds.n ELSE 3600

\* The text of a list as the claim describes it: a line per item, each the
\* mark of its status, a space and its content, then the footer
RECURSIVE ItemLines(_)
ItemLines(list) ==
    IF list = <<>> THEN <<>>
    ELSE (IF Head(list).status = "completed" THEN <<"[", "x", "]", " ">>
          ELSE IF Head(list).status = "in_progress" THEN <<"[", ">", "]", " ">>
          ELSE <<"[", " ", "]", " ">>)
         \o Head(list).content \o <<Newline>> \o ItemLines(Tail(list))

Footer(list) ==
    <<"(">> \o IntToText(Cardinality({i \in DOMAIN list : list[i].status = "completed"}))
      \o <<"/">> \o IntToText(Len(list)) \o <<" ", "d", "o", "n", "e", ")">>

\* C15 as stated: the text an accepted update returns is the lines of the
\* stored items, in order, and the footer - for every stored list.
C15_RenderLinesAndFooter ==
    todo_outcome = "rendered" => todo_text = ItemLines(items) \o Footer(items)

\* C15, amended: for a stored list that is not empty the text is the lines
\* of the stored items, in order, and the footer; for the empty list it is
\* the text No todos. and has no footer.
C15_RenderNonEmpty ==
    todo_outcome = "rendered"
      => /\ items # <<>> => todo_text = ItemLines(items) \o Footer(items)
         /\ items = <<>> => todo_text = <<"N", "o", " ", "t", "o", "d", "o", "s", ".">>

C15_Witness ==
    /\ todo_outcome = "rendered"
    /\ Len(items) = 3
    /\ items[1].status = "completed"
    /\ items[2].status = "in_progress"
    /\ items[3].status = "pending"
    /\ todo_text = <<"[", "x", "]", " ", "d", Newline,
                     "[", ">", "]", " ", "c", Newline,
                     "[", " ", "]", " ", "a", Newline,
                     "(", "1", "/", "3", " ", "d", "o", "n", "e", ")">>

====
